---------------------------- MODULE Spec2Model ----------------------------
(***************************************************************************)
(* A model of the pixelizer engine (class PixelizerGenerator): palette     *)
(* parsing, CIELAB conversion, k-means palette derivation, nearest-colour  *)
(* quantization, dominant-colour downscaling, nearest-neighbour resizing   *)
(* and the processImage pipeline.                                          *)
(*                                                                         *)
(* Representation.                                                         *)
(*  - A Uint8ClampedArray of RGBA bytes is a sequence of pixels, each a    *)
(*    4-tuple <<r, g, b, a>> of bytes; byte offset i of the source is      *)
(*    pixel i/4 + 1 here.                                                  *)
(*  - Buffers live in `heap` (a sequence of buffers); a RawImageData is a  *)
(*    record [data, width, height] whose data field is a buffer reference  *)
(*    (an index of heap), so object identity of buffers is part of state.  *)
(*  - Integer-valued double arithmetic of the form x * (p / q) followed by *)
(*    Math.floor / Math.ceil / Math.round is modelled bit-exactly for      *)
(*    IEEE-754 binary64 (operators FlFloorMul, FlCeilMul, FlRoundMul).     *)
(*  - CIELAB values are fixed-point integers in units of 1/100; the sRGB   *)
(*    transfer function is tabulated in units of 1/10000.                  *)
(*  - Other real-valued options (relativeScale, weightC) are rationals     *)
(*    <<numerator, denominator>> and are computed with exactly.            *)
(***************************************************************************)
EXTENDS Integers, Sequences, FiniteSets, TLC

VARIABLES
  heap,        \* sequence of pixel buffers; a raster's data field indexes it
  op,          \* which operation of PixelizerGenerator this behaviour calls
  args,        \* the arguments of the call (a record)
  pc,          \* position inside the running call
  loc,         \* the locals of the running call (a record)
  ret          \* what the call returned or threw; NoValue while running

vars == <<heap, op, args, pc, loc, ret>>

NoValue == [kind |-> "none"]

Throw(msg) == [kind |-> "throw", message |-> msg]

Return(v) == [kind |-> "return", value |-> v]

-----------------------------------------------------------------------------
(* Generic helpers                                                          *)

Min(a, b) == IF a < b THEN a ELSE b

Max(a, b) == IF a > b THEN a ELSE b

Abs(a) == IF a < 0 THEN -a ELSE a

RECURSIVE Pow2(_)
Pow2(n) == IF n = 0 THEN 1 ELSE 2 * Pow2(n - 1)

Range(s) == {s[i] : i \in DOMAIN s}

RECURSIVE SeqSum3(_)
SeqSum3(s) ==
  IF s = <<>> THEN <<0, 0, 0>>
  ELSE LET r == SeqSum3(Tail(s))
       IN <<s[1][1] + r[1], s[1][2] + r[2], s[1][3] + r[3]>>

-----------------------------------------------------------------------------
(* IEEE-754 binary64 arithmetic on small non-negative integers.             *)
(* The code computes scale = p / q once (one rounding) and then x * scale   *)
(* (a second rounding) before Math.floor, Math.ceil or Math.round.  For     *)
(* integers below 2^15 the result is decided by the sign and size of the    *)
(* rounding error of p / q, which is computed here with modular arithmetic. *)

\* j with 2^j <= p/q < 2^(j+1): the binary exponent of the double p / q.
RECURSIVE BinExp(_, _)
BinExp(p, q) ==
  IF p >= 2 * q THEN 1 + BinExp(p, 2 * q)
  ELSE IF p < q THEN BinExp(2 * p, q) - 1
  ELSE 0

\* k with 2^k < a/b <= 2^(k+1): the binade whose spacing applies just below a/b.
RECURSIVE ExpBelow(_, _)
ExpBelow(a, b) ==
  IF a > 2 * b THEN 1 + ExpBelow(a, 2 * b)
  ELSE IF a <= b THEN ExpBelow(2 * a, b) - 1
  ELSE 0

RECURSIVE Pow2Mod(_, _)
Pow2Mod(e, q) == IF e = 0 THEN 1 % q ELSE (2 * Pow2Mod(e - 1, q)) % q

\* The signed remainder rho of the correctly rounded quotient: the double
\* p / q equals the real p/q minus rho / (q * 2^(52 - BinExp(p, q))).
DivError(p, q) ==
  LET r == ((p % q) * Pow2Mod(52 - BinExp(p, q), q)) % q
  IN IF 2 * r > q THEN r - q ELSE r

\* v * 2^a <= q, for an exponent a of either sign
LeScaled(v, a, q) == IF a >= 0 THEN v * Pow2(a) <= q ELSE v <= q * Pow2(-a)

\* Math.floor(x * (p / q))
FlFloorMul(x, p, q) ==
  IF x = 0 \/ p = 0 THEN 0
  ELSE LET m == (x * p) \div q
           rho == DivError(p, q)
       IN IF (x * p) % q # 0 \/ rho <= 0 THEN m
          ELSE IF LeScaled(x * rho, 1 + BinExp(p, q) - ExpBelow(x * p, q), q)
               THEN m ELSE m - 1

\* Math.ceil(x * (p / q))
FlCeilMul(x, p, q) ==
  IF x = 0 \/ p = 0 THEN 0
  ELSE LET m == (x * p) \div q
           rho == DivError(p, q)
       IN IF (x * p) % q # 0 THEN m + 1
          ELSE IF rho >= 0 THEN m
          ELSE IF LeScaled(x * (-rho), 1 + BinExp(p, q) - BinExp(x * p, q), q)
               THEN m ELSE m + 1

\* Math.round(x * (p / q)); Math.round rounds halves up
FlRoundMul(x, p, q) ==
  IF x = 0 \/ p = 0 THEN 0
  ELSE LET n == (2 * x * p + q) \div (2 * q)
           rho == DivError(p, q)
       IN IF (2 * x * p + q) % (2 * q) # 0 \/ rho <= 0 THEN n
          ELSE IF LeScaled(x * rho, 1 + BinExp(p, q) - ExpBelow(x * p, q), q)
               THEN n ELSE n - 1

-----------------------------------------------------------------------------
(* Colour space (rgbToLab, labToRgb, labColorDistanceSq).                   *)
(* Fixed point: linear-light and XYZ values in 1/10000, the f(t) values in  *)
(* 1/1000, LAB components in 1/100.                                         *)

\* Math.pow((v + 0.055) / 1.055, 2.4) or v / 12.92 for v = c / 255, in units
\* of 1/10000, entry c + 1 for byte c
SrgbToLinear ==
  << 0, 3, 6, 9, 12, 15, 18, 21, 24, 27, 30, 33, 37, 40, 44, 48,
     52, 56, 60, 65, 70, 75, 80, 86, 91, 97, 103, 110, 116, 123, 130, 137,
     144, 152, 160, 168, 176, 185, 194, 203, 212, 222, 232, 242, 252, 262, 273, 284,
     296, 307, 319, 331, 343, 356, 369, 382, 395, 409, 423, 437, 452, 467, 482, 497,
     513, 529, 545, 561, 578, 595, 612, 630, 648, 666, 685, 704, 723, 742, 762, 782,
     802, 823, 844, 865, 887, 908, 931, 953, 976, 999, 1022, 1046, 1070, 1095, 1119, 1144,
     1170, 1195, 1221, 1248, 1274, 1301, 1329, 1356, 1384, 1413, 1441, 1470, 1500, 1529, 1559, 1590,
     1620, 1651, 1683, 1714, 1746, 1779, 1812, 1845, 1878, 1912, 1946, 1981, 2016, 2051, 2086, 2122,
     2159, 2195, 2232, 2270, 2307, 2346, 2384, 2423, 2462, 2502, 2542, 2582, 2623, 2664, 2705, 2747,
     2789, 2831, 2874, 2918, 2961, 3005, 3050, 3095, 3140, 3185, 3231, 3278, 3325, 3372, 3419, 3467,
     3515, 3564, 3613, 3663, 3712, 3763, 3813, 3864, 3916, 3968, 4020, 4072, 4125, 4179, 4233, 4287,
     4342, 4397, 4452, 4508, 4564, 4621, 4678, 4735, 4793, 4851, 4910, 4969, 5029, 5089, 5149, 5210,
     5271, 5333, 5395, 5457, 5520, 5583, 5647, 5711, 5776, 5841, 5906, 5972, 6038, 6105, 6172, 6240,
     6308, 6376, 6445, 6514, 6584, 6654, 6724, 6795, 6867, 6939, 7011, 7084, 7157, 7231, 7305, 7379,
     7454, 7529, 7605, 7682, 7758, 7835, 7913, 7991, 8070, 8148, 8228, 8308, 8388, 8469, 8550, 8632,
     8714, 8796, 8879, 8963, 9047, 9131, 9216, 9301, 9387, 9473, 9560, 9647, 9734, 9823, 9911, 10000 >>

\* Entry c (1..255): the least linear value, in 1/10000, that the inverse
\* transfer function 1.055 * r^(1/2.4) - 0.055 (or 12.92 * r), times 255,
\* clamped and rounded, maps to a byte >= c
LinearToSrgbThreshold ==
  << 2, 5, 8, 11, 14, 17, 20, 23, 26, 29, 32, 36, 39, 43, 46, 50,
     54, 59, 63, 68, 73, 78, 83, 89, 95, 101, 107, 113, 120, 127, 134, 141,
     149, 156, 164, 173, 181, 190, 199, 208, 217, 227, 237, 247, 258, 268, 279, 290,
     302, 314, 325, 338, 350, 363, 376, 389, 403, 417, 431, 445, 460, 475, 490, 505,
     521, 537, 554, 570, 587, 604, 622, 640, 658, 676, 695, 714, 733, 752, 772, 792,
     813, 834, 855, 876, 898, 920, 942, 965, 988, 1011, 1035, 1059, 1083, 1107, 1132, 1157,
     1183, 1209, 1235, 1262, 1288, 1315, 1343, 1371, 1399, 1427, 1456, 1485, 1515, 1545, 1575, 1605,
     1636, 1667, 1699, 1731, 1763, 1796, 1829, 1862, 1896, 1930, 1964, 1999, 2034, 2069, 2105, 2141,
     2177, 2214, 2251, 2289, 2327, 2365, 2404, 2443, 2482, 2522, 2562, 2603, 2643, 2685, 2726, 2768,
     2811, 2853, 2897, 2940, 2984, 3028, 3073, 3118, 3163, 3209, 3255, 3302, 3349, 3396, 3444, 3492,
     3540, 3589, 3638, 3688, 3738, 3788, 3839, 3890, 3942, 3994, 4047, 4099, 4153, 4206, 4260, 4315,
     4370, 4425, 4480, 4536, 4593, 4650, 4707, 4765, 4823, 4881, 4940, 5000, 5059, 5119, 5180, 5241,
     5302, 5364, 5426, 5489, 5552, 5616, 5680, 5744, 5809, 5874, 5940, 6006, 6072, 6139, 6206, 6274,
     6342, 6411, 6480, 6549, 6619, 6690, 6760, 6832, 6903, 6975, 7048, 7121, 7194, 7268, 7342, 7417,
     7492, 7568, 7644, 7720, 7797, 7875, 7952, 8031, 8109, 8189, 8268, 8348, 8429, 8510, 8591, 8673,
     8755, 8838, 8921, 9005, 9089, 9174, 9259, 9344, 9430, 9517, 9604, 9691, 9779, 9867, 9956 >>

\* floor of the cube root of v, by bisection on [lo, hi)
RECURSIVE CbrtSearch(_, _, _)
CbrtSearch(v, lo, hi) ==
  IF hi - lo <= 1 THEN lo
  ELSE LET mid == (lo + hi) \div 2
       IN IF mid * mid * mid <= v THEN CbrtSearch(v, mid, hi)
          ELSE CbrtSearch(v, lo, mid)

\* t > 0.008856 ? Math.pow(t, 1/3) : 7.787 * t + 16/116   (t in 1/10000,
\* result in 1/1000)
LabF(t) ==
  IF t * 100 > 8856 THEN CbrtSearch(t * 100000, 0, 1200)
  ELSE (7787 * t) \div 10000 + 138

rgbToLab(rgb) ==
  LET R == SrgbToLinear[rgb[1] + 1]
      G == SrgbToLinear[rgb[2] + 1]
      B == SrgbToLinear[rgb[3] + 1]
      X == ((R * 4124 + G * 3576 + B * 1805) * 10) \div 95047
      Y == (R * 2126 + G * 7152 + B * 722) \div 10000
      Z == ((R * 193 + G * 1192 + B * 9505) * 10) \div 108883
      fx == LabF(X)
      fy == LabF(Y)
      fz == LabF(Z)
  IN << (116 * fy - 16000) \div 10,
        (500 * (fx - fy)) \div 10,
        (200 * (fy - fz)) \div 10 >>

\* Math.pow(f, 3) > 0.008856 ? Math.pow(f, 3) : (f - 16/116) / 7.787
\* (f in 1/1000, result in 1/10000)
LabFInv(f) ==
  IF f * f * f > 8856000 THEN (f * f * f) \div 100000
  ELSE ((f - 138) * 10000) \div 7787

\* Math.round(Math.max(0, Math.min(255, v * 255))) of the gamma-encoded v
LinearToByte(r) == Cardinality({c \in 1..255 : r >= LinearToSrgbThreshold[c]})

labToRgb(lab) ==
  LET fy == (lab[1] * 10 + 16000) \div 116
      fx == lab[2] \div 50 + fy
      fz == fy - lab[3] \div 20
      x == (LabFInv(fx) * 95047) \div 100000
      y == LabFInv(fy)
      z == (LabFInv(fz) * 108883) \div 100000
      r == (x * 32406 - y * 15372 - z * 4986) \div 10000
      g == (y * 18758 - x * 9689 + z * 415) \div 10000
      b == (x * 557 - y * 2040 + z * 10570) \div 10000
  IN << LinearToByte(r), LinearToByte(g), LinearToByte(b) >>

labColorDistanceSq(a, b) ==
  LET dl == a[1] - b[1]
      da == a[2] - b[2]
      db == a[3] - b[3]
  IN dl * dl + da * da + db * db

-----------------------------------------------------------------------------
(* parseCustomPalette.  A string is a sequence of one-character strings.    *)

WhiteSpace == {" ", "\t", "\n", "\r"}

HexDigits ==
  << "0", "1", "2", "3", "4", "5", "6", "7", "8", "9",
     "a", "b", "c", "d", "e", "f", "A", "B", "C", "D", "E", "F" >>

\* parseInt(c, 16) of one hexadecimal digit
HexVal(c) ==
  LET i == CHOOSE n \in DOMAIN HexDigits : HexDigits[n] = c
  IN IF i <= 16 THEN i - 1 ELSE i - 7

\* paletteStr.split(","): the segments between commas, empty ones included
RECURSIVE Split(_)
Split(s) ==
  IF \A i \in DOMAIN s : s[i] # "," THEN << s >>
  ELSE LET c == CHOOSE i \in DOMAIN s : s[i] = "," /\ \A j \in 1..(i - 1) : s[j] # ","
       IN << SubSeq(s, 1, c - 1) >> \o Split(SubSeq(s, c + 1, Len(s)))

RECURSIVE TrimStart(_)
TrimStart(s) ==
  IF s # <<>> /\ s[1] \in WhiteSpace THEN TrimStart(Tail(s)) ELSE s

RECURSIVE TrimEnd(_)
TrimEnd(s) ==
  IF s # <<>> /\ s[Len(s)] \in WhiteSpace THEN TrimEnd(SubSeq(s, 1, Len(s) - 1)) ELSE s

\* s.trim()
Trim(s) == TrimEnd(TrimStart(s))

\* s.replace(/^#/, "")
StripHash(s) == IF s # <<>> /\ s[1] = "#" THEN Tail(s) ELSE s

\* IsHex6 without the end anchor: six hexadecimal digits, then anything
IsHex6Prefix(h) == Len(h) >= 6 /\ \A i \in 1..6 : h[i] \in Range(HexDigits)

\* /^[0-9a-fA-F]{6}$/.test(h)
IsHex6(h) == Len(h) = 6 /\ \A i \in 1..6 : h[i] \in Range(HexDigits)

\* [parseInt(hex.substring(0, 2), 16), parseInt(hex.substring(2, 4), 16), ...]
HexToRgb(hex) ==
  << HexVal(hex[1]) * 16 + HexVal(hex[2]),
     HexVal(hex[3]) * 16 + HexVal(hex[4]),
     HexVal(hex[5]) * 16 + HexVal(hex[6]) >>

\* the tokens left after split, trim, strip and the length filter
hexCodes(paletteStr) ==
  LET segs == Split(paletteStr)
      cleaned == [i \in DOMAIN segs |-> StripHash(Trim(segs[i]))]
  IN SelectSeq(cleaned, LAMBDA t : Len(t) > 0)

parseCustomPalette(paletteStr) ==
  LET codes == hexCodes(paletteStr)
  IN IF \E i \in DOMAIN codes : ~IsHex6(codes[i])
     THEN Throw("Invalid hex code format. Use 6-digit codes like FFFFFF.")
     ELSE Return([i \in DOMAIN codes |-> HexToRgb(codes[i])])

-----------------------------------------------------------------------------
(* sampleLabPixels                                                          *)

\* lines 99-102: the loop from pixel n on, stepping by samplingRate; it
\* visits pixels n, n + samplingRate, ... below Len(data) and keeps the
\* LAB colour of those with alpha > 0
SampleFrom(data, n, samplingRate) ==
  LET visits == Max(0, (Len(data) - n + samplingRate - 1) \div samplingRate)
      visited == [j \in 1..visits |-> data[n + (j - 1) * samplingRate + 1]]
      kept == SelectSeq(visited, LAMBDA px : px[4] > 0)
  IN [j \in DOMAIN kept |-> rgbToLab(<<kept[j][1], kept[j][2], kept[j][3]>>)]

\* sampleLabPixels with the stride left at 1: every pixel is visited
sampleEveryPixel(h, imageData, maxSamples) == SampleFrom(h[imageData.data], 0, 1)

sampleLabPixels(h, imageData, maxSamples) ==
  LET data == h[imageData.data]
      total == Len(data)
      samplingRate == Max(1, total \div maxSamples)
  IN SampleFrom(data, 0, samplingRate)

-----------------------------------------------------------------------------
(* kmeans                                                                   *)

\* Array.from(new Set(data.map(JSON.stringify))): first occurrences, in order
RECURSIVE Dedupe(_)
Dedupe(s) ==
  IF s = <<>> THEN <<>>
  ELSE LET front == Dedupe(SubSeq(s, 1, Len(s) - 1))
           last == s[Len(s)]
       IN IF last \in Range(front) THEN front ELSE Append(front, last)

\* insert p after every element whose L is <= p's (stable)
RECURSIVE InsertByL(_, _)
InsertByL(sorted, p) ==
  IF sorted = <<>> THEN << p >>
  ELSE IF sorted[Len(sorted)][1] <= p[1] THEN Append(sorted, p)
  ELSE Append(InsertByL(SubSeq(sorted, 1, Len(sorted) - 1), p), sorted[Len(sorted)])

\* uniquePoints.sort((a, b) => a[0] - b[0]): a stable sort on the L channel
RECURSIVE SortByL(_)
SortByL(s) ==
  IF s = <<>> THEN <<>>
  ELSE InsertByL(SortByL(SubSeq(s, 1, Len(s) - 1)), s[Len(s)])

uniquePoints(data) == SortByL(Dedupe(data))

\* lines 108-119: the initial centroids (for k <= 0 the loop pushes nothing)
InitialCentroids(data, k) ==
  LET u == uniquePoints(data)
  IN IF Len(u) <= k THEN u
     ELSE IF k <= 0 THEN <<>>
     ELSE LET step == Len(u) \div k
          IN [i \in 1..k |-> u[(i - 1) * step + 1]]

\* lines 127-135: index of the first centroid at minimal distance (1-based;
\* with no centroids `best` stays at its initial value, the first index)
NearestIndex(p, centroids) ==
  IF centroids = <<>> THEN 1
  ELSE CHOOSE i \in DOMAIN centroids :
         /\ \A j \in DOMAIN centroids :
              labColorDistanceSq(p, centroids[i]) <= labColorDistanceSq(p, centroids[j])
         /\ \A j \in 1..(i - 1) :
              labColorDistanceSq(p, centroids[j]) > labColorDistanceSq(p, centroids[i])

\* lines 122-137: clusters[i] = the points assigned to centroid i, in data order
Clusters(data, centroids) ==
  [i \in DOMAIN centroids |->
     SelectSeq(data, LAMBDA p : NearestIndex(p, centroids) = i)]

\* sum / cluster.length, rounded to the nearest 1/100
MeanComponent(sum, n) == (2 * sum + n) \div (2 * n)

\* NewCentroids with the centroids of empty clusters dropped
NewCentroidsDropEmpty(data, centroids) ==
  LET clusters == Clusters(data, centroids)
      kept == SelectSeq([i \in DOMAIN centroids |-> i], LAMBDA i : clusters[i] # <<>>)
  IN [j \in DOMAIN kept |->
       LET sum == SeqSum3(clusters[kept[j]])
           n == Len(clusters[kept[j]])
       IN << MeanComponent(sum[1], n), MeanComponent(sum[2], n),
             MeanComponent(sum[3], n) >>]

\* lines 139-156
NewCentroids(data, centroids) ==
  LET clusters == Clusters(data, centroids)
  IN [i \in DOMAIN centroids |->
       IF clusters[i] = <<>> THEN centroids[i]
       ELSE LET sum == SeqSum3(clusters[i])
                n == Len(clusters[i])
            IN << MeanComponent(sum[1], n), MeanComponent(sum[2], n),
                  MeanComponent(sum[3], n) >>]

\* Converged with the test passed by one centroid alone
ConvergedSome(newCentroids, centroids) ==
  \E i \in DOMAIN centroids : ~(labColorDistanceSq(newCentroids[i], centroids[i]) > 1)

\* lines 157-158: converged stays true iff no centroid moved by more than
\* 1e-4 (squared distance; 1 in squared units of 1/100)
Converged(newCentroids, centroids) ==
  \A i \in DOMAIN centroids : ~(labColorDistanceSq(newCentroids[i], centroids[i]) > 1)

RECURSIVE KmeansLoop(_, _, _, _)
KmeansLoop(data, centroids, iter, maxIterations) ==
  IF ~(iter < maxIterations) THEN centroids
  ELSE LET newCentroids == NewCentroids(data, centroids)
       IN IF Converged(newCentroids, centroids) THEN newCentroids
          ELSE KmeansLoop(data, newCentroids, iter + 1, maxIterations)

DefaultMaxIterations == 20

\* Return(centroids), or the TypeError of clusters[best].push(p) at line 136
\* when there is a point to assign and no cluster to hold it
kmeans(data, k, maxIterations) ==
  IF data = <<>> THEN Return(<<>>)
  ELSE IF InitialCentroids(data, k) = <<>> /\ 0 < maxIterations
  THEN Throw("TypeError")
  ELSE Return(KmeansLoop(data, InitialCentroids(data, k), 0, maxIterations))

-----------------------------------------------------------------------------
(* applyPaletteQuantization                                                 *)

\* CacheKey without the red channel: (g << 8) | b
CacheKeyNoRed(r, g, b) == g * 256 + b

\* (r << 16) | (g << 8) | b
CacheKey(r, g, b) == r * 65536 + g * 256 + b

\* lines 187-197: the palette entry chosen by the linear scan, or <<>> for
\* paletteRGB[0] of an empty palette (undefined)
NearestPaletteEntry(rgb, paletteRGB, paletteLab) ==
  IF paletteRGB = <<>> THEN <<>>
  ELSE LET lab == rgbToLab(rgb)
           bestIdx == CHOOSE j \in DOMAIN paletteLab :
                        /\ \A m \in DOMAIN paletteLab :
                             labColorDistanceSq(lab, paletteLab[j])
                               <= labColorDistanceSq(lab, paletteLab[m])
                        /\ \A m \in 1..(j - 1) :
                             labColorDistanceSq(lab, paletteLab[m])
                               > labColorDistanceSq(lab, paletteLab[j])
       IN paletteRGB[bestIdx]

\* lines 170-173: the locals before the loop; out is zero-filled
QuantStart(data, paletteRGB) ==
  [ paletteLab |-> [j \in DOMAIN paletteRGB |-> rgbToLab(paletteRGB[j])],
    out |-> [n \in DOMAIN data |-> <<0, 0, 0, 0>>],
    cache |-> <<>>,
    i |-> 0,
    thrown |-> FALSE ]

\* QuantPixel writing a fully opaque alpha instead of the pixel's own
QuantPixelOpaque(data, paletteRGB, l) ==
  LET px == data[l.i + 1]
      best == NearestPaletteEntry(<<px[1], px[2], px[3]>>, paletteRGB, l.paletteLab)
  IN IF px[4] = 0
     THEN [l EXCEPT !.out[l.i + 1] = <<0, 0, 0, 0>>, !.i = l.i + 1]
     ELSE IF best = <<>>
     THEN [l EXCEPT !.thrown = TRUE]
     ELSE [l EXCEPT !.out[l.i + 1] = <<best[1], best[2], best[3], 255>>,
                    !.i = l.i + 1]

\* lines 176-200: one iteration of the loop, for the pixel at byte offset 4 * l.i
QuantPixel(data, paletteRGB, l) ==
  LET px == data[l.i + 1]
      key == CacheKey(px[1], px[2], px[3])
      hit == key \in DOMAIN l.cache
      best == IF hit THEN l.cache[key]
              ELSE NearestPaletteEntry(<<px[1], px[2], px[3]>>, paletteRGB, l.paletteLab)
      cache2 == IF hit THEN l.cache
                ELSE [c \in DOMAIN l.cache \cup {key} |->
                        IF c = key THEN best ELSE l.cache[c]]
  IN IF px[4] = 0
     THEN [l EXCEPT !.out[l.i + 1] = <<0, 0, 0, 0>>, !.i = l.i + 1]
     ELSE IF best = <<>>
     THEN [l EXCEPT !.cache = cache2, !.thrown = TRUE]
     ELSE [l EXCEPT !.cache = cache2,
                    !.out[l.i + 1] = <<best[1], best[2], best[3], px[4]>>,
                    !.i = l.i + 1]

RECURSIVE QuantLoop(_, _, _)
QuantLoop(data, paletteRGB, l) ==
  IF l.thrown \/ l.i >= Len(data) THEN l
  ELSE QuantLoop(data, paletteRGB, QuantPixel(data, paletteRGB, l))

\* the whole call: [heap, ret]; the result raster owns a new buffer
applyPaletteQuantization(h, imageData, paletteRGB) ==
  LET data == h[imageData.data]
      l == QuantLoop(data, paletteRGB, QuantStart(data, paletteRGB))
  IN IF l.thrown
     THEN [heap |-> h, ret |-> Throw("TypeError")]
     ELSE [heap |-> Append(h, l.out),
           ret |-> Return([data |-> Len(h) + 1,
                           width |-> imageData.width,
                           height |-> imageData.height])]

-----------------------------------------------------------------------------
(* estimateDownscaleResolution.  relativeScale is a rational <<p, q>> > 0;  *)
(* the value longest * (2 / sqrt(longest * relativeScale * 0.5)) is x with  *)
(* x^2 = 8 * longest * q / p, and Math.round(x) >= n iff x >= n - 1/2 iff   *)
(* (2n - 1)^2 * p <= 32 * longest * q.                                      *)

RECURSIVE RoundSqrtFrom(_, _, _)
RoundSqrtFrom(n, p, c) ==
  IF (2 * n + 1) * (2 * n + 1) * p <= c THEN RoundSqrtFrom(n + 1, p, c) ELSE n

\* the estimate with relativeScale multiplied where the code divides by it
estimateProportional(w, h, relativeScale) ==
  LET longest == Max(w, h)
  IN Max(1, RoundSqrtFrom(0, relativeScale[2], 32 * longest * relativeScale[1]))

estimateDownscaleResolution(w, h, relativeScale) ==
  LET longest == Max(w, h)
  IN Max(1, RoundSqrtFrom(0, relativeScale[1], 32 * longest * relativeScale[2]))

-----------------------------------------------------------------------------
(* resizeNearestNeighbor                                                    *)

\* inData[srcIdx .. srcIdx + 3]; a read past the end yields undefined, which
\* a Uint8ClampedArray stores as 0
PixelAt(data, n) == IF n + 1 \in DOMAIN data THEN data[n + 1] ELSE <<0, 0, 0, 0>>

resizeNearestNeighbor(h, imageData, newWidth, newHeight) ==
  LET inData == h[imageData.data]
      inW == imageData.width
      inH == imageData.height
      outData == [n \in 1..(newWidth * newHeight) |->
                    LET x == (n - 1) % newWidth
                        y == (n - 1) \div newWidth
                        srcX == FlFloorMul(x, inW, newWidth)
                        srcY == FlFloorMul(y, inH, newHeight)
                    IN PixelAt(inData, srcY * inW + srcX)]
  IN [heap |-> Append(h, outData),
      ret |-> Return([data |-> Len(h) + 1, width |-> newWidth, height |-> newHeight])]

-----------------------------------------------------------------------------
(* modeDownscale.  weightC is a rational <<num, den>> with den > 0.         *)

\* 0.2126 * r + 0.7152 * g + 0.0722 * b, in units of 1/10000
Luminance(color) == 2126 * color[1] + 7152 * color[2] + 722 * color[3]

\* count * (1 + weightC * (1 - lum / 255)), in units of 1/(den * 2550000)
Score(color, count, weightC) ==
  count * (weightC[2] * 2550000 + weightC[1] * (2550000 - Luminance(color)))

\* Math.abs(score - bestScore) < 1e-6, for scores in units of 1/(den * 2550000):
\* |d| / (den * 2550000) < 1e-6 iff |d| * 100 < 255 * den
ScoresTie(score, bestScore, weightC) ==
  Abs(score - bestScore) <= (255 * weightC[2] - 1) \div 100

\* lines 264-277: the scan from candidate i on, best being the candidate held
RECURSIVE DominantFrom(_, _, _, _, _)
DominantFrom(colors, counts, i, best, weightC) ==
  IF i > Len(colors) THEN best
  ELSE LET score == Score(colors[i], counts[i], weightC)
           lum == Luminance(colors[i])
           bestScore == Score(colors[best], counts[best], weightC)
           bestLum == Luminance(colors[best])
       IN IF score > bestScore \/ (ScoresTie(score, bestScore, weightC) /\ lum < bestLum)
          THEN DominantFrom(colors, counts, i + 1, i, weightC)
          ELSE DominantFrom(colors, counts, i + 1, best, weightC)

\* lines 255-279; the first candidate always beats bestScore = -Infinity
selectDominantPixel(colors, counts, weightC) ==
  IF Len(colors) = 0 THEN <<0, 0, 0, 0>>
  ELSE colors[DominantFrom(colors, counts, 2, 1, weightC)]

\* lines 287-314: the tally of a band, [colors, counts] in first-seen order,
\* tracking at most nColors distinct RGBA values
RECURSIVE Tally(_, _)
Tally(band, nColors) ==
  IF band = <<>> THEN [colors |-> <<>>, counts |-> <<>>]
  ELSE LET t == Tally(SubSeq(band, 1, Len(band) - 1), nColors)
           px == band[Len(band)]
       IN IF \E i \in DOMAIN t.colors : t.colors[i] = px
          THEN LET found == CHOOSE i \in DOMAIN t.colors : t.colors[i] = px
               IN [t EXCEPT !.counts[found] = @ + 1]
          ELSE IF Len(t.colors) < nColors
          THEN [colors |-> Append(t.colors, px), counts |-> Append(t.counts, 1)]
          ELSE t

\* a box filter: the channel-wise mean of the band instead of its dominant colour
BandPixelAverage(band, nColors, weightC) ==
  IF band = <<>> THEN <<0, 0, 0, 0>>
  ELSE LET rgb == SeqSum3(band)
           n == Len(band)
       IN << rgb[1] \div n, rgb[2] \div n, rgb[3] \div n, band[1][4] >>

\* lines 315-318: the pixel stored for a band
BandPixel(band, nColors, weightC) ==
  LET t == Tally(band, nColors)
  IN selectDominantPixel(t.colors, t.counts, weightC)

\* lines 281-320: the vertical pass, an inW x outH raster
VerticalPass(inData, inW, inH, outH, nColors, weightC) ==
  [n \in 1..(inW * outH) |->
     LET x == (n - 1) % inW
         yOut == (n - 1) \div inW
         yStart == FlFloorMul(yOut, inH, outH)
         yEnd == Min(inH, FlCeilMul(yOut + 1, inH, outH))
         band == [k \in 1..Max(0, yEnd - yStart) |-> inData[(yStart + k - 1) * inW + x + 1]]
     IN BandPixel(band, nColors, weightC)]

\* lines 322-361: the horizontal pass over the vertical pass's raster
HorizontalPass(verticalData, inW, outW, outH, nColors, weightC) ==
  [n \in 1..(outW * outH) |->
     LET xOut == (n - 1) % outW
         yOut == (n - 1) \div outW
         xStart == FlFloorMul(xOut, inW, outW)
         xEnd == Min(inW, FlCeilMul(xOut + 1, inW, outW))
         band == [k \in 1..Max(0, xEnd - xStart) |-> verticalData[yOut * inW + xStart + k]]
     IN BandPixel(band, nColors, weightC)]

\* line 252 returns { ...imageData }: a new object holding the SAME data buffer
modeDownscale(h, imageData, outW, outH, nColors, weightC) ==
  LET inData == h[imageData.data]
      inW == imageData.width
      inH == imageData.height
      verticalData == VerticalPass(inData, inW, inH, outH, nColors, weightC)
      outData == HorizontalPass(verticalData, inW, outW, outH, nColors, weightC)
  IN IF outW = inW /\ outH = inH
     THEN [heap |-> h,
           ret |-> Return([data |-> imageData.data, width |-> inW, height |-> inH])]
     ELSE [heap |-> Append(h, outData),
           ret |-> Return([data |-> Len(h) + 1, width |-> outW, height |-> outH])]

-----------------------------------------------------------------------------
(* Bounds and input universes                                               *)

\* rasters have at most this many pixels, and sides of at most MaxSide
MaxPixels == 4

MaxSide == 2

\* nColors ranges over 1..MaxColors
MaxColors == 2

\* outputSize ranges over null and 1..MaxOutputSize
MaxOutputSize == 3

\* The sample cap handed to sampleLabPixels.  The code passes 5000; the
\* rasters here have at most MaxPixels pixels, so the cap is scaled down with
\* them to keep sampling strides above 1 reachable.
SampleCap == 2

\* null, for a field that holds a record otherwise
Null == [kind |-> "null"]

\* outputSize is <<>> for null and <<n>> for the number n
NullSize == <<>>

NoRaster == [data |-> 0, width |-> 0, height |-> 0]

\* an opaque, a translucent and a fully transparent pixel (the transparent
\* one with non-zero colour bytes)
Pixels == { <<250, 10, 10, 255>>, <<0, 10, 10, 128>>, <<10, 20, 30, 0>> }

Dims == {d \in (1..MaxSide) \X (1..MaxSide) : d[1] * d[2] <= MaxPixels}

PixelSeqs(n) == [1..n -> Pixels]

\* relativeScale values (rationals): 2 and 8
RelativeScales == { <<2, 1>>, <<8, 1>> }

\* weightC values (rationals): 0 and 1/2
WeightCs == { <<0, 1>>, <<1, 2>> }

\* customPaletteStr values: "FF0000, #0000ff", "fa0a0a,,FA0A0A", "FF00" and " , "
CustomPaletteStrs ==
  { << "F", "F", "0", "0", "0", "0", ",", " ", "#", "0", "0", "0", "0", "f", "f" >>,
    << "f", "a", "0", "a", "0", "a", ",", ",", "F", "A", "0", "A", "0", "A" >>,
    << "F", "F", "0", "0" >>,
    << " ", ",", " " >> }

\* rasters offered as fixPaletteData: one fully transparent on the sampled
\* positions, one with two colours
FixPaletteDatas ==
  { << <<10, 20, 30, 0>>, <<250, 10, 10, 255>>, <<10, 20, 30, 0>>, <<250, 10, 10, 255>> >>,
    << <<0, 0, 255, 255>>, <<0, 255, 0, 255>> >> }

-----------------------------------------------------------------------------
(* processImage, one action per stage                                       *)

NoLocals ==
  [ paletteRGB |-> <<>>, labPixels |-> <<>>, quantizedImageData |-> NoRaster,
    downscaledImageData |-> NoRaster, finalImageData |-> NoRaster, steps |-> <<>> ]

\* a test that never takes the outputSize branch
OutputSizeIgnored(outputSize) == FALSE

\* if (options.outputSize): null and 0 are falsy
Truthy(outputSize) == outputSize # NullSize /\ outputSize[1] # 0

InitProcessImage ==
  \E d \in Dims, mode \in {"kmeans", "custom"}, nColors \in 1..MaxColors,
     shouldPixelize \in BOOLEAN, relativeScale \in RelativeScales,
     weightC \in WeightCs,
     outputSize \in {NullSize} \cup {<<n>> : n \in 1..MaxOutputSize},
     fix \in {<<>>} \cup FixPaletteDatas, str \in CustomPaletteStrs :
    \E data \in PixelSeqs(d[1] * d[2]) :
      \* options a stage never reads are held at one value
      /\ (mode = "custom" => fix = <<>>)
      /\ (mode = "kmeans" => str = << "F", "F", "0", "0" >>)
      /\ (~shouldPixelize =>
            relativeScale = <<8, 1>> /\ weightC = <<0, 1>> /\ outputSize = NullSize)
      /\ heap = IF fix = <<>> THEN << data >> ELSE << data, fix >>
      /\ op = "processImage"
      /\ args = [ mainImageData |-> [data |-> 1, width |-> d[1], height |-> d[2]],
                  options |->
                    [ paletteMode |-> mode, nColors |-> nColors,
                      shouldPixelize |-> shouldPixelize,
                      relativeScale |-> relativeScale, weightC |-> weightC,
                      outputSize |-> outputSize,
                      fixPaletteData |->
                        IF fix = <<>> THEN Null
                        ELSE [data |-> 2, width |-> Len(fix), height |-> 1],
                      customPaletteStr |-> str ] ]
      /\ pc = "palette"
      /\ loc = NoLocals
      /\ ret = NoValue

Fail(r, step) ==
  /\ ret' = r
  /\ pc' = "done"
  /\ loc' = [loc EXCEPT !.steps = Append(@, step)]
  /\ UNCHANGED <<heap, op, args>>

\* lines 372-373
ParsePalette ==
  /\ op = "processImage" /\ pc = "palette"
  /\ args.options.paletteMode = "custom"
  /\ LET r == parseCustomPalette(args.options.customPaletteStr)
     IN IF r.kind = "throw" THEN Fail(r, "parse")
        ELSE /\ loc' = [loc EXCEPT !.paletteRGB = r.value, !.steps = Append(@, "parse")]
             /\ pc' = "quantize"
             /\ UNCHANGED <<heap, op, args, ret>>

\* options.fixPaletteData || mainImageData
paletteSourceData ==
  IF args.options.fixPaletteData # Null THEN args.options.fixPaletteData
  ELSE args.mainImageData

\* lines 375-380
SamplePalette ==
  /\ op = "processImage" /\ pc = "palette"
  /\ args.options.paletteMode # "custom"
  /\ LET labPixels == sampleLabPixels(heap, paletteSourceData, SampleCap)
     IN IF Len(labPixels) = 0
        THEN Fail(Throw("No non-transparent pixels found for palette generation."),
                  "sample")
        ELSE /\ loc' = [loc EXCEPT !.labPixels = labPixels, !.steps = Append(@, "sample")]
             /\ pc' = "cluster"
             /\ UNCHANGED <<heap, op, args, ret>>

\* lines 382-383
ClusterPalette ==
  /\ op = "processImage" /\ pc = "cluster"
  /\ LET r == kmeans(loc.labPixels, args.options.nColors, DefaultMaxIterations)
     IN IF r.kind = "throw" THEN Fail(r, "cluster")
        ELSE /\ loc' = [loc EXCEPT
                          !.paletteRGB = [i \in DOMAIN r.value |-> labToRgb(r.value[i])],
                          !.steps = Append(@, "cluster")]
             /\ pc' = "quantize"
             /\ UNCHANGED <<heap, op, args, ret>>

\* lines 386-392
Quantize ==
  /\ op = "processImage" /\ pc = "quantize"
  /\ LET r == applyPaletteQuantization(heap, args.mainImageData, loc.paletteRGB)
     IN IF r.ret.kind = "throw" THEN Fail(r.ret, "quantize")
        ELSE /\ heap' = r.heap
             /\ loc' = [loc EXCEPT !.quantizedImageData = r.ret.value,
                                   !.finalImageData = r.ret.value,
                                   !.steps = Append(@, "quantize")]
             /\ pc' = IF args.options.shouldPixelize THEN "downscale" ELSE "return"
             /\ UNCHANGED <<op, args, ret>>

\* lines 393-408
Downscale ==
  /\ op = "processImage" /\ pc = "downscale"
  /\ LET origW == args.mainImageData.width
         origH == args.mainImageData.height
         scalePx == estimateDownscaleResolution(origW, origH, args.options.relativeScale)
         downW == Max(1, FlRoundMul(origW, scalePx, Max(origW, origH)))
         downH == Max(1, FlRoundMul(origH, scalePx, Max(origW, origH)))
         r == modeDownscale(heap, loc.quantizedImageData, downW, downH,
                            args.options.nColors, args.options.weightC)
     IN /\ heap' = r.heap
        /\ loc' = [loc EXCEPT !.downscaledImageData = r.ret.value,
                              !.steps = Append(@, "downscale")]
        /\ pc' = "resize"
        /\ UNCHANGED <<op, args, ret>>

\* lines 410-422
Resize ==
  /\ op = "processImage" /\ pc = "resize"
  /\ LET origW == args.mainImageData.width
         origH == args.mainImageData.height
         sized == Truthy(args.options.outputSize)
         finalW == IF sized
                   THEN Max(1, FlRoundMul(origW, args.options.outputSize[1], Max(origW, origH)))
                   ELSE origW
         finalH == IF sized
                   THEN Max(1, FlRoundMul(origH, args.options.outputSize[1], Max(origW, origH)))
                   ELSE origH
         r == resizeNearestNeighbor(heap, loc.downscaledImageData, finalW, finalH)
     IN /\ heap' = r.heap
        /\ loc' = [loc EXCEPT !.finalImageData = r.ret.value,
                              !.steps = Append(@, "resize")]
        /\ pc' = "return"
        /\ UNCHANGED <<op, args, ret>>

\* line 425
ReturnResult ==
  /\ op = "processImage" /\ pc = "return"
  /\ ret' = Return([finalImageData |-> loc.finalImageData, paletteRGB |-> loc.paletteRGB])
  /\ pc' = "done"
  /\ UNCHANGED <<heap, op, args, loc>>

Init == InitProcessImage

Next ==
  \/ ParsePalette
  \/ SamplePalette
  \/ ClusterPalette
  \/ Quantize
  \/ Downscale
  \/ Resize
  \/ ReturnResult

Spec == Init /\ [][Next]_vars

-----------------------------------------------------------------------------
(* Properties of processImage (specification Spec)                          *)

RgbOf(px) == <<px[1], px[2], px[3]>>

\* every pixel of the raster with alpha > 0 has its RGB in the palette
FidelityOf(raster, paletteRGB) ==
  \A n \in DOMAIN heap[raster.data] :
    heap[raster.data][n][4] > 0 => RgbOf(heap[raster.data][n]) \in Range(paletteRGB)

\* C1: whenever processImage returns, every pixel of finalImageData with
\* alpha > 0 has an RGB triple that is an element of the returned paletteRGB;
\* the same holds of the quantized raster and of the downscaled raster, the
\* intermediate results the final one is built from.
C1_PaletteFidelity ==
  op = "processImage" =>
    /\ (ret.kind = "return" =>
          FidelityOf(ret.value.finalImageData, ret.value.paletteRGB))
    /\ (loc.quantizedImageData # NoRaster =>
          FidelityOf(loc.quantizedImageData, loc.paletteRGB))
    /\ (loc.downscaledImageData # NoRaster =>
          FidelityOf(loc.downscaledImageData, loc.paletteRGB))
    /\ (loc.finalImageData # NoRaster =>
          FidelityOf(loc.finalImageData, loc.paletteRGB))

\* a kmeans-mode, pixelized, resized call returned a raster showing two
\* different visible colours, none of them a colour of the input
C1_Witness ==
  /\ op = "processImage" /\ ret.kind = "return"
  /\ args.options.paletteMode = "kmeans"
  /\ args.options.shouldPixelize /\ args.options.outputSize # NullSize
  /\ loc.steps = << "sample", "cluster", "quantize", "downscale", "resize" >>
  /\ \E m, n \in DOMAIN heap[ret.value.finalImageData.data] :
       LET data == heap[ret.value.finalImageData.data]
       IN /\ data[m][4] > 0 /\ data[n][4] > 0
          /\ RgbOf(data[m]) # RgbOf(data[n])
  /\ \E n \in DOMAIN heap[1] :
       heap[1][n][4] > 0 /\ RgbOf(heap[1][n]) \notin Range(ret.value.paletteRGB)

\* the 0-based pixel positions a strided sampling visits: the multiples of
\* stride = max(1, floor(total / maxSamples)) below total
SampledPositions(total, maxSamples) ==
  LET stride == Max(1, total \div maxSamples)
  IN {n \in 0..(total - 1) : n % stride = 0}

\* the palette source has no pixel with alpha > 0 at a sampled position
NoSampledOpaque ==
  LET data == heap[paletteSourceData.data]
  IN \A n \in SampledPositions(Len(data), SampleCap) : data[n + 1][4] = 0

\* C7: in kmeans mode, if no pixel visited by the strided sampling of the
\* palette source has alpha > 0, processImage throws at the sampling stage:
\* no clustering, no quantization, no raster allocated, no palette, no result.
C7_EmptyPaletteSource ==
  (/\ op = "processImage" /\ args.options.paletteMode = "kmeans"
   /\ NoSampledOpaque /\ pc # "palette")
  => /\ pc = "done" /\ ret.kind = "throw"
     /\ loc.steps = << "sample" >>
     /\ loc.paletteRGB = <<>> /\ loc.labPixels = <<>>
     /\ loc.quantizedImageData = NoRaster /\ loc.finalImageData = NoRaster
     /\ Len(heap) = (IF args.options.fixPaletteData = Null THEN 1 ELSE 2)

\* the call failed although the main image, sampled with stride 2, has an
\* opaque pixel at a position the stride skips
C7_Witness ==
  /\ op = "processImage" /\ args.options.paletteMode = "kmeans"
  /\ args.options.fixPaletteData = Null
  /\ NoSampledOpaque /\ ret.kind = "throw"
  /\ \E n \in DOMAIN heap[1] : heap[1][n][4] > 0

\* C8: the returned raster has the original dimensions when shouldPixelize
\* is false, and when shouldPixelize is true and outputSize is unset; when
\* shouldPixelize is true and outputSize is a positive integer it is
\* max(1, Math.round(origW * r)) by max(1, Math.round(origH * r)) with
\* r = outputSize / max(origW, origH), and its longest side is outputSize.
C8_ResultDimensions ==
  (op = "processImage" /\ ret.kind = "return") =>
    LET origW == args.mainImageData.width
        origH == args.mainImageData.height
        longest == Max(origW, origH)
        final == ret.value.finalImageData
        size == args.options.outputSize
    IN /\ Len(heap[final.data]) = final.width * final.height
       /\ (~args.options.shouldPixelize =>
             final.width = origW /\ final.height = origH)
       /\ (args.options.shouldPixelize /\ size = NullSize =>
             final.width = origW /\ final.height = origH)
       /\ (args.options.shouldPixelize /\ size # NullSize /\ size[1] >= 1 =>
             /\ final.width = Max(1, FlRoundMul(origW, size[1], longest))
             /\ final.height = Max(1, FlRoundMul(origH, size[1], longest))
             /\ Max(final.width, final.height) = size[1])

\* a 1 x 2 image pixelized to outputSize 3 came back 2 x 3
C8_Witness ==
  /\ op = "processImage" /\ ret.kind = "return"
  /\ args.options.shouldPixelize /\ args.options.outputSize = <<3>>
  /\ args.mainImageData.width = 1 /\ args.mainImageData.height = 2
  /\ ret.value.finalImageData.width = 2 /\ ret.value.finalImageData.height = 3

-----------------------------------------------------------------------------
(* applyPaletteQuantization, one action per loop iteration                  *)
(* (specification SpecQuantize)                                             *)

\* palettes have at most this many entries
MaxPalette == 2

PaletteColors == { <<255, 0, 0>>, <<0, 0, 0>>, <<250, 10, 10>> }

Palettes == UNION {[1..n -> PaletteColors] : n \in 0..MaxPalette}

InitQuantize ==
  \E d \in Dims, paletteRGB \in Palettes :
    \E data \in PixelSeqs(d[1] * d[2]) :
      /\ heap = << data >>
      /\ op = "applyPaletteQuantization"
      /\ args = [ imageData |-> [data |-> 1, width |-> d[1], height |-> d[2]],
                  paletteRGB |-> paletteRGB ]
      /\ pc = "loop"
      /\ loc = QuantStart(data, paletteRGB)
      /\ ret = NoValue

\* lines 175-201: one iteration; the TypeError of best[0] ends the call
QuantIterate ==
  /\ op = "applyPaletteQuantization" /\ pc = "loop"
  /\ loc.i < Len(heap[args.imageData.data])
  /\ loc' = QuantPixel(heap[args.imageData.data], args.paletteRGB, loc)
  /\ IF loc'.thrown
     THEN pc' = "done" /\ ret' = Throw("TypeError")
     ELSE UNCHANGED <<pc, ret>>
  /\ UNCHANGED <<heap, op, args>>

\* line 202
QuantReturn ==
  /\ op = "applyPaletteQuantization" /\ pc = "loop"
  /\ ~(loc.i < Len(heap[args.imageData.data]))
  /\ heap' = Append(heap, loc.out)
  /\ ret' = Return([data |-> Len(heap) + 1, width |-> args.imageData.width,
                    height |-> args.imageData.height])
  /\ pc' = "done"
  /\ UNCHANGED <<op, args, loc>>

NextQuantize == QuantIterate \/ QuantReturn

SpecQuantize == InitQuantize /\ [][NextQuantize]_vars

\* the indices of the palette entries at minimal CIELAB squared distance
Minimizers(rgb, paletteRGB) ==
  {j \in DOMAIN paletteRGB :
     \A m \in DOMAIN paletteRGB :
       labColorDistanceSq(rgbToLab(rgb), rgbToLab(paletteRGB[j]))
         <= labColorDistanceSq(rgbToLab(rgb), rgbToLab(paletteRGB[m]))}

\* the RGB of the lowest-indexed minimizer: the result without any cache
Uncached(rgb, paletteRGB) ==
  LET S == Minimizers(rgb, paletteRGB)
  IN paletteRGB[CHOOSE j \in S : \A m \in S : j <= m]

\* C2: for a non-empty palette, every pixel with alpha > 0 processed so far
\* holds the RGB of the lowest-indexed palette entry among those minimizing
\* the CIELAB squared distance to its colour, whatever the memo cache held
\* when it was processed; and the cache maps each key to that same result.
C2_NearestLowestIndex ==
  (op = "applyPaletteQuantization" /\ args.paletteRGB # <<>>) =>
    LET data == heap[args.imageData.data]
    IN /\ \A n \in 1..loc.i :
            data[n][4] > 0 =>
              RgbOf(loc.out[n]) = Uncached(RgbOf(data[n]), args.paletteRGB)
       /\ \A n \in 1..loc.i :
            data[n][4] > 0 =>
              /\ CacheKey(data[n][1], data[n][2], data[n][3]) \in DOMAIN loc.cache
              /\ loc.cache[CacheKey(data[n][1], data[n][2], data[n][3])]
                   = Uncached(RgbOf(data[n]), args.paletteRGB)
       /\ (ret.kind = "return" =>
             \A n \in DOMAIN data :
               data[n][4] > 0 =>
                 RgbOf(heap[ret.value.data][n]) = Uncached(RgbOf(data[n]), args.paletteRGB))

\* the call returned after serving a pixel from the cache (a colour seen
\* earlier in the call) and after computing two different results, the
\* nearest entry being the second of the palette for one of them
C2_Witness ==
  /\ op = "applyPaletteQuantization" /\ ret.kind = "return"
  /\ Len(args.paletteRGB) = 2 /\ args.paletteRGB[1] # args.paletteRGB[2]
  /\ LET data == heap[1]
     IN /\ \E m, n \in DOMAIN data :
             m < n /\ data[m][4] > 0 /\ data[n][4] > 0 /\ RgbOf(data[m]) = RgbOf(data[n])
        /\ \E n \in DOMAIN data :
             data[n][4] > 0 /\ RgbOf(heap[ret.value.data][n]) = args.paletteRGB[2]
        /\ \E n \in DOMAIN data :
             data[n][4] > 0 /\ RgbOf(heap[ret.value.data][n]) = args.paletteRGB[1]

\* C3: the result has the input's width and height, every pixel keeps its
\* alpha byte, and every input pixel with alpha 0 becomes (0, 0, 0, 0).
C3_AlphaPreserved ==
  (op = "applyPaletteQuantization" /\ ret.kind = "return") =>
    LET data == heap[args.imageData.data]
        out == heap[ret.value.data]
    IN /\ ret.value.width = args.imageData.width
       /\ ret.value.height = args.imageData.height
       /\ Len(out) = Len(data)
       /\ \A n \in DOMAIN data :
            /\ out[n][4] = data[n][4]
            /\ (data[n][4] = 0 => out[n] = <<0, 0, 0, 0>>)

\* the call returned for an image holding a transparent pixel with non-zero
\* colour bytes, a translucent pixel and an opaque one
C3_Witness ==
  /\ op = "applyPaletteQuantization" /\ ret.kind = "return"
  /\ \E k, m, n \in DOMAIN heap[1] :
       /\ heap[1][k][4] = 0 /\ RgbOf(heap[1][k]) # <<0, 0, 0>>
       /\ heap[1][m][4] = 128 /\ heap[ret.value.data][m][4] = 128
       /\ heap[1][n][4] = 255

-----------------------------------------------------------------------------
(* kmeans, one action per round (specification SpecKmeans)                  *)

\* data holds at most this many points
MaxPoints == 5

\* k ranges over 1..MaxK
MaxK == 3

\* LAB points, in 1/100: (1, 3, 0), (1, 2, 0), (1, 1, 0), (5, 2, 0), (5, 3, 0)
LabPoints ==
  { <<100, 300, 0>>, <<100, 200, 0>>, <<100, 100, 0>>, <<500, 200, 0>>, <<500, 300, 0>> }

InitKmeans ==
  \E n \in 0..MaxPoints, k \in 1..MaxK :
    \E data \in [1..n -> LabPoints] :
      /\ heap = <<>>
      /\ op = "kmeans"
      /\ args = [data |-> data, k |-> k, maxIterations |-> DefaultMaxIterations]
      /\ pc = "start"
      /\ loc = [centroids |-> <<>>, iter |-> 0, sawEmpty |-> FALSE]
      /\ ret = NoValue

\* lines 107-119
KmeansStart ==
  /\ op = "kmeans" /\ pc = "start"
  /\ IF args.data = <<>>
     THEN /\ ret' = Return(<<>>)
          /\ pc' = "done"
          /\ UNCHANGED loc
     ELSE /\ loc' = [loc EXCEPT !.centroids = InitialCentroids(args.data, args.k)]
          /\ pc' = "iterate"
          /\ UNCHANGED ret
  /\ UNCHANGED <<heap, op, args>>

\* lines 121-161: one round; sawEmpty records that a cluster received no point
KmeansRound ==
  /\ op = "kmeans" /\ pc = "iterate"
  /\ loc.iter < args.maxIterations
  /\ LET newCentroids == NewCentroids(args.data, loc.centroids)
         clusters == Clusters(args.data, loc.centroids)
     IN /\ loc' = [ centroids |-> newCentroids,
                    iter |-> loc.iter + 1,
                    sawEmpty |-> loc.sawEmpty
                                   \/ \E i \in DOMAIN clusters : clusters[i] = <<>> ]
        /\ pc' = IF Converged(newCentroids, loc.centroids) THEN "return" ELSE "iterate"
  /\ UNCHANGED <<heap, op, args, ret>>

\* line 163, reached by the break or by the loop condition
KmeansReturn ==
  /\ op = "kmeans"
  /\ pc = "return" \/ (pc = "iterate" /\ ~(loc.iter < args.maxIterations))
  /\ ret' = Return(loc.centroids)
  /\ pc' = "done"
  /\ UNCHANGED <<heap, op, args, loc>>

NextKmeans == KmeansStart \/ KmeansRound \/ KmeansReturn

SpecKmeans == InitKmeans /\ [][NextKmeans]_vars

\* the number of distinct input points
DistinctCount == Cardinality(Range(args.data))

\* C5: for a non-empty input and k >= 1 the centroid list has exactly
\* min(distinctCount, k) entries from initialization on, through every
\* round (also a round in which a cluster receives no points), and so has
\* the list kmeans returns.
C5_CentroidCount ==
  (op = "kmeans" /\ args.data # <<>> /\ args.k >= 1) =>
    /\ (pc # "start" => Len(loc.centroids) = Min(DistinctCount, args.k))
    /\ (ret.kind = "return" => Len(ret.value) = Min(DistinctCount, args.k))

\* kmeans returned k = 3 centroids for 5 distinct points after a round in
\* which one cluster received no points
C5_Witness ==
  /\ op = "kmeans" /\ ret.kind = "return"
  /\ loc.sawEmpty
  /\ args.k = 3 /\ DistinctCount = 5 /\ Len(ret.value) = 3

-----------------------------------------------------------------------------
(* parseCustomPalette through processImage in custom mode                   *)
(* (specification SpecParse)                                                *)

\* customPaletteStr is at most this many segments joined by commas
MaxSegments == 2

\* Segments a palette string is put together from, each with what it is
\* once trimmed and stripped of one leading '#': nothing ("empty"), six
\* hexadecimal digits ("color", with the colour they spell) or anything
\* else ("invalid").
SegmentTable ==
  { [text |-> <<>>, is |-> "empty", rgb |-> <<>>],
    [text |-> << " " >>, is |-> "empty", rgb |-> <<>>],
    [text |-> << " ", "#", "\t" >>, is |-> "empty", rgb |-> <<>>],
    [text |-> << "F", "F", "0", "0", "0", "0" >>, is |-> "color", rgb |-> <<255, 0, 0>>],
    [text |-> << " ", "0", "0", "f", "f", "0", "0" >>, is |-> "color", rgb |-> <<0, 255, 0>>],
    [text |-> << "#", "f", "A", "0", "b", "1", "C", " " >>, is |-> "color",
     rgb |-> <<250, 11, 28>>],
    [text |-> << "#", "F", "F", "0", "0", "0", "0" >>, is |-> "color", rgb |-> <<255, 0, 0>>],
    [text |-> << "F", "F", "0", "0" >>, is |-> "invalid", rgb |-> <<>>],
    [text |-> << "G", "G", "0", "0", "0", "0" >>, is |-> "invalid", rgb |-> <<>>],
    [text |-> << "#", "#", "F", "F", "0", "0", "0", "0" >>, is |-> "invalid", rgb |-> <<>>],
    [text |-> << "#", " ", "F", "F", "0", "0", "0", "0" >>, is |-> "invalid", rgb |-> <<>>],
    [text |-> << "F", "F", "0", "0", "0", "0", "F", "F" >>, is |-> "invalid", rgb |-> <<>>],
    [text |-> << "F", "F", " ", "0", "0", "0" >>, is |-> "invalid", rgb |-> <<>>] }

\* segs[1] "," segs[2] "," ...
RECURSIVE Join(_)
Join(segs) ==
  IF Len(segs) = 0 THEN <<>>
  ELSE IF Len(segs) = 1 THEN segs[1].text
  ELSE segs[1].text \o << "," >> \o Join(Tail(segs))

InitParse ==
  \E n \in 1..MaxSegments, mainPixel \in Pixels :
    \E segs \in [1..n -> SegmentTable] :
      /\ heap = << << mainPixel >> >>
      /\ op = "processImage"
      /\ args = [ mainImageData |-> [data |-> 1, width |-> 1, height |-> 1],
                  segments |-> segs,
                  options |->
                    [ paletteMode |-> "custom", nColors |-> 1,
                      shouldPixelize |-> FALSE,
                      relativeScale |-> <<8, 1>>, weightC |-> <<0, 1>>,
                      outputSize |-> NullSize, fixPaletteData |-> Null,
                      customPaletteStr |-> Join(segs) ] ]
      /\ pc = "palette"
      /\ loc = NoLocals
      /\ ret = NoValue

NextParse == ParsePalette \/ Quantize \/ ReturnResult

SpecParse == InitParse /\ [][NextParse]_vars

\* the colours of the segments that are colours, in segment order
RECURSIVE ExpectedPalette(_)
ExpectedPalette(segs) ==
  IF segs = <<>> THEN <<>>
  ELSE (IF segs[1].is = "color" THEN << segs[1].rgb >> ELSE <<>>)
       \o ExpectedPalette(Tail(segs))

\* C6: parseCustomPalette is all-or-nothing.  If any token left after
\* splitting on commas, trimming, stripping one leading '#' and discarding
\* empty tokens is not exactly 6 hexadecimal digits, the call throws, no
\* palette exists and processImage produces no result; otherwise the
\* palette holds exactly one colour per remaining token, in token order,
\* duplicates kept, and that is the palette processImage returns.
C6_ParseAllOrNothing ==
  (op = "processImage" /\ pc # "palette") =>
    IF \E i \in DOMAIN args.segments : args.segments[i].is = "invalid"
    THEN /\ pc = "done" /\ ret.kind = "throw"
         /\ loc.steps = << "parse" >>
         /\ loc.paletteRGB = <<>>
         /\ loc.quantizedImageData = NoRaster /\ loc.finalImageData = NoRaster
         /\ Len(heap) = 1
    ELSE /\ loc.steps[1] = "parse"
         /\ loc.paletteRGB = ExpectedPalette(args.segments)
         /\ (ret.kind = "return" =>
               ret.value.paletteRGB = ExpectedPalette(args.segments))
         /\ (ret.kind = "throw" => loc.steps = << "parse", "quantize" >>)

\* processImage returned a palette of two equal colours parsed from two
\* tokens that spell the colour differently
C6_Witness ==
  /\ op = "processImage" /\ ret.kind = "return"
  /\ Len(args.segments) = 2
  /\ args.segments[1].text # args.segments[2].text
  /\ ret.value.paletteRGB = << <<255, 0, 0>>, <<255, 0, 0>> >>

-----------------------------------------------------------------------------
(* estimateDownscaleResolution at two scales (specification SpecEstimate)   *)

\* w and h range over 1..MaxEstimateSide
MaxEstimateSide == 3

\* relativeScale ranges over the rationals p/q with p in 1..MaxScaleNum and
\* q in 1..MaxScaleDen
MaxScaleNum == 34

MaxScaleDen == 2

ScaleValues == (1..MaxScaleNum) \X (1..MaxScaleDen)

\* s1 < s2 for rationals with positive denominators
ScaleLess(s1, s2) == s1[1] * s2[2] < s2[1] * s1[2]

InitEstimate ==
  \E w \in 1..MaxEstimateSide, h \in 1..MaxEstimateSide,
     s1 \in ScaleValues, s2 \in ScaleValues :
    /\ ScaleLess(s1, s2)
    /\ heap = <<>>
    /\ op = "estimateDownscaleResolution"
    /\ args = [w |-> w, h |-> h, s1 |-> s1, s2 |-> s2]
    /\ pc = "call"
    /\ loc = <<>>
    /\ ret = NoValue

\* the two calls estimateDownscaleResolution(w, h, s1) and (w, h, s2)
Estimate ==
  /\ op = "estimateDownscaleResolution" /\ pc = "call"
  /\ ret' = Return(<< estimateDownscaleResolution(args.w, args.h, args.s1),
                      estimateDownscaleResolution(args.w, args.h, args.s2) >>)
  /\ pc' = "done"
  /\ UNCHANGED <<heap, op, args, loc>>

NextEstimate == Estimate

SpecEstimate == InitEstimate /\ [][NextEstimate]_vars

\* C9 as stated: for s1 < s2 the estimate at s1 is at most the estimate at
\* s2 (a smaller relativeScale yields a smaller target resolution), and the
\* result is an integer >= 1.
C9_Original ==
  (op = "estimateDownscaleResolution" /\ ret.kind = "return") =>
    /\ ret.value[1] <= ret.value[2]
    /\ ret.value[1] \in Nat /\ ret.value[1] >= 1
    /\ ret.value[2] \in Nat /\ ret.value[2] >= 1

\* C9 amended: for s1 < s2 the estimate at s1 is at least the estimate at
\* s2 (a smaller relativeScale yields a larger, finer target resolution),
\* and the result is an integer >= 1.
C9_AntitoneInScale ==
  (op = "estimateDownscaleResolution" /\ ret.kind = "return") =>
    /\ ret.value[1] >= ret.value[2]
    /\ ret.value[1] \in Nat /\ ret.value[1] >= 1
    /\ ret.value[2] \in Nat /\ ret.value[2] >= 1

\* the smaller scale gave a strictly larger resolution, and the larger scale
\* a value that only the clamp keeps at 1
C9_Witness ==
  /\ op = "estimateDownscaleResolution" /\ ret.kind = "return"
  /\ ret.value[1] > ret.value[2]
  /\ ret.value[2] = 1
  /\ 4 * 8 * Max(args.w, args.h) * args.s2[2] < args.s2[1]

-----------------------------------------------------------------------------
(* resizeNearestNeighbor (specification SpecResize)                         *)

\* source rasters are at most MaxSourceSide by MaxSourceSide
MaxSourceSide == 2

\* newWidth ranges over 1..MaxNewWidth, newHeight over 1..MaxNewHeight
MaxNewWidth == 98

MaxNewHeight == 2

\* the source pixel at 0-based position n: four different channel values
MarkedPixel(n) == <<n + 1, 2 * n + 10, 3 * n + 100, 255 - n>>

InitResize ==
  \E inW \in 1..MaxSourceSide, inH \in 1..MaxSourceSide,
     newWidth \in 1..MaxNewWidth, newHeight \in 1..MaxNewHeight :
    /\ heap = << [n \in 1..(inW * inH) |-> MarkedPixel(n - 1)] >>
    /\ op = "resizeNearestNeighbor"
    /\ args = [ imageData |-> [data |-> 1, width |-> inW, height |-> inH],
                newWidth |-> newWidth, newHeight |-> newHeight ]
    /\ pc = "call"
    /\ loc = <<>>
    /\ ret = NoValue

ResizeCall ==
  /\ op = "resizeNearestNeighbor" /\ pc = "call"
  /\ LET r == resizeNearestNeighbor(heap, args.imageData, args.newWidth, args.newHeight)
     IN heap' = r.heap /\ ret' = r.ret
  /\ pc' = "done"
  /\ UNCHANGED <<op, args, loc>>

NextResize == ResizeCall

SpecResize == InitResize /\ [][NextResize]_vars

\* C10: destination pixel (x, y) holds all 4 channels of source pixel
\* (floor(x * inW / newW), floor(y * inH / newH)), which lies inside the
\* source; in particular, when newW = a * inW and newH = b * inH, destination
\* pixel (x, y) holds source pixel (x div a, y div b), so each source pixel
\* fills exactly one a-by-b block.
C10_NearestSource ==
  (op = "resizeNearestNeighbor" /\ ret.kind = "return") =>
    LET inW == args.imageData.width
        inH == args.imageData.height
        newW == args.newWidth
        newH == args.newHeight
        src == heap[args.imageData.data]
        dst == heap[ret.value.data]
    IN /\ Len(dst) = newW * newH
       /\ \A x \in 0..(newW - 1), y \in 0..(newH - 1) :
            LET sx == (x * inW) \div newW
                sy == (y * inH) \div newH
            IN /\ sx < inW /\ sy < inH
               /\ dst[y * newW + x + 1] = src[sy * inW + sx + 1]
               /\ (newW % inW = 0 /\ newH % inH = 0 =>
                     dst[y * newW + x + 1]
                       = src[(y \div (newH \div inH)) * inW + (x \div (newW \div inW)) + 1])

-----------------------------------------------------------------------------
(* The transforms called on a caller's raster, and the caller writing into  *)
(* the raster it got back (specification SpecTransforms)                    *)

TransformOps == {"applyPaletteQuantization", "modeDownscale", "resizeNearestNeighbor"}

\* args.original is the content of the input raster's buffer at the call
InitTransforms ==
  \E d \in Dims, transform \in TransformOps, paletteRGB \in Palettes,
     outW \in 1..MaxSide, outH \in 1..MaxSide, nColors \in 1..MaxColors :
    \E data \in PixelSeqs(d[1] * d[2]) :
      /\ (transform # "applyPaletteQuantization" => paletteRGB = <<>>)
      /\ (transform = "applyPaletteQuantization" => outW = 1 /\ outH = 1)
      /\ (transform # "modeDownscale" => nColors = 1)
      /\ heap = << data >>
      /\ op = transform
      /\ args = [ imageData |-> [data |-> 1, width |-> d[1], height |-> d[2]],
                  original |-> data,
                  paletteRGB |-> paletteRGB,
                  outW |-> outW, outH |-> outH,
                  nColors |-> nColors, weightC |-> <<0, 1>> ]
      /\ pc = "call"
      /\ loc = <<>>
      /\ ret = NoValue

Returned(r) ==
  /\ heap' = r.heap
  /\ ret' = r.ret
  /\ pc' = "returned"
  /\ UNCHANGED <<op, args, loc>>

CallQuantization ==
  /\ op = "applyPaletteQuantization" /\ pc = "call"
  /\ Returned(applyPaletteQuantization(heap, args.imageData, args.paletteRGB))

CallDownscale ==
  /\ op = "modeDownscale" /\ pc = "call"
  /\ Returned(modeDownscale(heap, args.imageData, args.outW, args.outH,
                            args.nColors, args.weightC))

CallResize ==
  /\ op = "resizeNearestNeighbor" /\ pc = "call"
  /\ Returned(resizeNearestNeighbor(heap, args.imageData, args.outW, args.outH))

\* the caller stores a pixel into the raster the transform returned
CallerWrite ==
  /\ op \in TransformOps /\ pc = "returned" /\ ret.kind = "return"
  /\ \E n \in DOMAIN heap[ret.value.data] :
       heap' = [heap EXCEPT ![ret.value.data][n] = <<1, 2, 3, 4>>]
  /\ pc' = "written"
  /\ UNCHANGED <<op, args, loc, ret>>

NextTransforms == CallQuantization \/ CallDownscale \/ CallResize \/ CallerWrite

SpecTransforms == InitTransforms /\ [][NextTransforms]_vars

\* C4: every transform leaves the bytes of its input raster unchanged and
\* returns a raster whose pixel buffer is not the input's buffer, so that a
\* later write to the returned raster cannot change the input (modeDownscale
\* with outW = inW and outH = inH included).
C4_OwnedRaster ==
  (op \in TransformOps /\ ret.kind = "return") =>
    /\ ret.value.data # args.imageData.data
    /\ heap[args.imageData.data] = args.original


-----------------------------------------------------------------------------
(* processImage called with a width, height, nColors or outputSize that is  *)
(* not positive (specification SpecInvalid)                                 *)

\* widths, heights and nColors go down to -MaxDeficit
MaxDeficit == 1

\* widths and heights with a zero or negative side; the buffer of such a
\* raster holds no pixel
InvalidDims == { d \in ((-MaxDeficit)..1) \X ((-MaxDeficit)..1) : d[1] < 1 \/ d[2] < 1 }

\* what the claim calls an invalid call
InvalidCall(a) ==
  \/ a.mainImageData.width < 1
  \/ a.mainImageData.height < 1
  \/ a.options.nColors < 1
  \/ (a.options.outputSize # NullSize /\ a.options.outputSize[1] < 1)

InitInvalid ==
  \E d \in Dims \cup InvalidDims, mode \in {"kmeans", "custom"},
     nColors \in (-MaxDeficit)..MaxColors, shouldPixelize \in BOOLEAN,
     outputSize \in {NullSize, <<0>>, <<MaxOutputSize>>},
     str \in CustomPaletteStrs :
    \E data \in PixelSeqs(Max(0, d[1] * d[2])) :
      /\ (mode = "kmeans" => str = << "F", "F", "0", "0" >>)
      \* the pixelization stage is entered with a raster that has pixels
      /\ (d \in InvalidDims => ~shouldPixelize)
      /\ (~shouldPixelize => outputSize # <<MaxOutputSize>>)
      /\ heap = << data >>
      /\ op = "processImage"
      /\ args = [ mainImageData |-> [data |-> 1, width |-> d[1], height |-> d[2]],
                  options |->
                    [ paletteMode |-> mode, nColors |-> nColors,
                      shouldPixelize |-> shouldPixelize,
                      relativeScale |-> <<2, 1>>, weightC |-> <<0, 1>>,
                      outputSize |-> outputSize,
                      fixPaletteData |-> Null,
                      customPaletteStr |-> str ] ]
      /\ InvalidCall(args)
      /\ pc = "palette"
      /\ loc = NoLocals
      /\ ret = NoValue

NextInvalid ==
  \/ ParsePalette
  \/ SamplePalette
  \/ ClusterPalette
  \/ Quantize
  \/ Downscale
  \/ Resize
  \/ ReturnResult

SpecInvalid == InitInvalid /\ [][NextInvalid]_vars

\* C11: processImage rejects every call whose image width or height is zero
\* or negative, whose nColors is less than 1, or whose outputSize is given
\* but is not positive: such a call never returns a raster and a palette.
C11_RejectsInvalid ==
  (op = "processImage" /\ InvalidCall(args)) => ret.kind # "return"

\* an invalid call ran to its end, with a result or with an error
C11_Witness ==
  op = "processImage" /\ InvalidCall(args) /\ pc = "done"

-----------------------------------------------------------------------------
(* modeDownscale reducing one band, a column or a row of pixels, to one     *)
(* pixel (specification SpecDominant)                                       *)

\* a band has at most this many pixels
MaxBand == 4

\* opaque colours: a dark one, a light one and a red.  With weightC = 5/4
\* one dark pixel scores 2.2496460... and two light pixels 2.2496470...,
\* less than 1e-6 apart.
BandColours == { <<0, 0, 1, 255>>, <<253, 221, 245, 255>>, <<250, 10, 10, 255>> }

\* weightC values (rationals): 0 and 5/4
BandWeightCs == { <<0, 1>>, <<5, 4>> }

InitDominant ==
  \E n \in 1..MaxBand, column \in BOOLEAN, nColors \in 1..MaxColors,
     weightC \in BandWeightCs :
    \E band \in [1..n -> BandColours] :
      /\ heap = << band >>
      /\ op = "modeDownscale"
      /\ args = [ imageData |-> [data |-> 1,
                                 width |-> IF column THEN 1 ELSE n,
                                 height |-> IF column THEN n ELSE 1],
                  original |-> band,
                  paletteRGB |-> <<>>,
                  outW |-> 1, outH |-> 1,
                  nColors |-> nColors, weightC |-> weightC ]
      /\ pc = "call"
      /\ loc = <<>>
      /\ ret = NoValue

NextDominant == CallDownscale

SpecDominant == InitDominant /\ [][NextDominant]_vars

\* the colours of a band that get a counter: the first nColors distinct ones
RECURSIVE TrackedColours(_, _)
TrackedColours(band, nColors) ==
  IF band = <<>> THEN {}
  ELSE LET before == TrackedColours(SubSeq(band, 1, Len(band) - 1), nColors)
       IN IF Cardinality(before) < nColors THEN before \cup {band[Len(band)]}
          ELSE before

\* the number of pixels of the band with colour c
CountOf(band, c) == Cardinality({i \in DOMAIN band : band[i] = c})

\* count * (1 + weightC * (1 - lum / 255)) of colour c in the band, times
\* 2550000 * weightC[2]
BandScore(band, c, weightC) ==
  CountOf(band, c) * (weightC[2] * 2550000 + weightC[1] * (2550000 - Luminance(c)))

\* the two scores differ by less than 1e-6: |d| * 100 < 255 * weightC[2]
NearTie(s, t, weightC) == Abs(s - t) <= (255 * weightC[2] - 1) \div 100

\* q is to be selected rather than p: its score is higher and not within
\* 1e-6, or the scores are within 1e-6 and q has the lower luminance
PreferredTo(band, q, p, weightC) ==
  LET sq == BandScore(band, q, weightC)
      sp == BandScore(band, p, weightC)
  IN IF NearTie(sq, sp, weightC) THEN Luminance(q) < Luminance(p)
     ELSE sq > sp

\* C12: the pixel selected for a band with at least one tracked colour is the
\* tracked colour with the highest score count*(1 + weightC*(1 - lum/255)),
\* and of two tracked colours whose scores differ by less than 1e-6 the one
\* with the lower luminance is preferred, whatever order the colours were
\* first seen in: no tracked colour is preferred to the selected one.  With
\* weightC = 0 and at most nColors distinct colours no colour is more
\* frequent than the selected one.
C12_DominantSelection ==
  (op = "modeDownscale" /\ pc = "returned" /\ Len(args.original) <= MaxBand
     /\ args.outW = 1 /\ args.outH = 1) =>
    LET band == args.original
        tracked == TrackedColours(band, args.nColors)
        selected == heap[ret.value.data][1]
    IN /\ Len(heap[ret.value.data]) = 1
       /\ selected \in tracked
       /\ \A q \in tracked : ~PreferredTo(band, q, selected, args.weightC)
       /\ (args.weightC[1] = 0 /\ Cardinality(Range(band)) <= args.nColors =>
             \A q \in Range(band) : CountOf(band, q) <= CountOf(band, selected))

\* the band [A, A, A, B] reduced with weightC = 0 yields A
C12_Witness ==
  /\ op = "modeDownscale" /\ pc = "returned"
  /\ args.weightC = <<0, 1>> /\ args.nColors = 2
  /\ Len(args.original) = 4
  /\ args.original[1] = args.original[2] /\ args.original[2] = args.original[3]
  /\ args.original[4] # args.original[1]
  /\ heap[ret.value.data] = << args.original[1] >>

-----------------------------------------------------------------------------
(* sampleLabPixels as processImage calls it, with maxSamples = 5000         *)
(* (specification SpecSample)                                               *)

\* the maxSamples argument at line 376
PaletteSamples == 5000

\* a raster of n pixels, opaque except that every period-th pixel is fully
\* transparent (none when period = 0)
PatternRaster(n, period) ==
  [i \in 1..n |->
     IF period > 0 /\ i % period = 0 THEN <<10, 20, 30, 0>> ELSE <<250, 10, 10, 255>>]

\* palette sources: every raster of up to MaxPixels pixels, and patterned
\* rasters of 5000, 5001 and 10000 pixels
SampleSources ==
  UNION { PixelSeqs(n) : n \in 1..MaxPixels }
    \cup { PatternRaster(n, period) :
             n \in {PaletteSamples, PaletteSamples + 1, 2 * PaletteSamples},
             period \in {0, 3} }

InitSample ==
  \E data \in SampleSources :
    /\ heap = << data >>
    /\ op = "sampleLabPixels"
    /\ args = [ imageData |-> [data |-> 1, width |-> Len(data), height |-> 1],
                maxSamples |-> PaletteSamples ]
    /\ pc = "call"
    /\ loc = [positions |-> <<>>]
    /\ ret = NoValue

\* lines 94-104; loc.positions records the pixel index i / 4 of each push
SampleCall ==
  /\ op = "sampleLabPixels" /\ pc = "call"
  /\ LET data == heap[args.imageData.data]
         samplingRate == Max(1, Len(data) \div args.maxSamples)
         visits == (Len(data) + samplingRate - 1) \div samplingRate
         visited == [j \in 1..visits |-> (j - 1) * samplingRate]
     IN loc' = [positions |-> SelectSeq(visited, LAMBDA n : data[n + 1][4] > 0)]
  /\ ret' = Return(sampleLabPixels(heap, args.imageData, args.maxSamples))
  /\ pc' = "done"
  /\ UNCHANGED <<heap, op, args>>

NextSample == SampleCall

SpecSample == InitSample /\ [][NextSample]_vars

\* C13: the palette sampling (maxSamples = 5000, stride = max(1,
\* floor(totalPixelCount / 5000))) yields at most 5000 points, each of them
\* a pixel at a raster-order position that is a multiple of the stride and
\* whose alpha is greater than 0.
C13_SampleBound ==
  (op = "sampleLabPixels" /\ pc = "done") =>
    LET data == heap[args.imageData.data]
        stride == Max(1, Len(data) \div 5000)
        points == ret.value
    IN /\ Len(points) <= 5000
       /\ Len(loc.positions) = Len(points)
       /\ \A j \in DOMAIN points :
            /\ loc.positions[j] % stride = 0
            /\ data[loc.positions[j] + 1][4] > 0
            /\ points[j] = rgbToLab(RgbOf(data[loc.positions[j] + 1]))
            /\ (j > 1 => loc.positions[j - 1] < loc.positions[j])

\* the sampling returned for a raster of 10000 pixels, which it visits with
\* stride 2, skipping the transparent pixel at position 2
C13_Witness ==
  /\ op = "sampleLabPixels" /\ pc = "done"
  /\ Len(heap[1]) = 2 * PaletteSamples
  /\ Len(ret.value) < PaletteSamples
  /\ loc.positions[1] = 0 /\ loc.positions[2] = 4

-----------------------------------------------------------------------------
(* kmeans under small iteration caps (specification SpecKmeansRounds)       *)

\* data holds at most this many points
MaxRoundPoints == 3

\* maxIterations ranges over 0..MaxRounds and the default
MaxRounds == 2

\* five points of which, with k = 3, none is nearest to the third centroid
\* in the first round
EmptyClusterData ==
  << <<100, 300, 0>>, <<100, 200, 0>>, <<500, 200, 0>>, <<100, 100, 0>>, <<500, 300, 0>> >>

InitKmeansRounds ==
  \E n \in 1..MaxRoundPoints, k \in 1..MaxK,
     maxIterations \in (0..MaxRounds) \cup {DefaultMaxIterations} :
    \E data \in [1..n -> LabPoints] \cup {EmptyClusterData} :
      /\ heap = <<>>
      /\ op = "kmeans"
      /\ args = [data |-> data, k |-> k, maxIterations |-> maxIterations]
      /\ pc = "start"
      /\ loc = [centroids |-> <<>>, iter |-> 0, sawEmpty |-> FALSE]
      /\ ret = NoValue

NextKmeansRounds == KmeansStart \/ KmeansRound \/ KmeansReturn

SpecKmeansRounds == InitKmeansRounds /\ [][NextKmeansRounds]_vars

\* the centroids after r assign-and-recompute rounds: each centroid is the
\* mean of the points nearest to it, or unchanged when it has none
RECURSIVE CentroidsAfter(_)
CentroidsAfter(r) ==
  IF r = 0 THEN InitialCentroids(args.data, args.k)
  ELSE LET before == CentroidsAfter(r - 1)
           clusters == Clusters(args.data, before)
       IN [i \in DOMAIN before |->
            IF clusters[i] = <<>> THEN before[i]
            ELSE LET sum == SeqSum3(clusters[i])
                     n == Len(clusters[i])
                 IN << MeanComponent(sum[1], n), MeanComponent(sum[2], n),
                       MeanComponent(sum[3], n) >>]

\* in round r every centroid moved by a squared distance <= 1e-4 (1 in
\* squared units of 1/100)
StillRound(r) ==
  \A i \in DOMAIN CentroidsAfter(r) :
    labColorDistanceSq(CentroidsAfter(r)[i], CentroidsAfter(r - 1)[i]) <= 1

\* C14: for a non-empty input and k >= 1, kmeans runs at most maxIterations
\* rounds; it goes on only after rounds in which some centroid moved by
\* more than 1e-4 (squared), returns the centroids of its last round, and
\* returns after the first round in which every centroid moved by at most
\* 1e-4 or else after exactly maxIterations rounds.
C14_RoundsBound ==
  (op = "kmeans" /\ args.data # <<>> /\ args.k >= 1) =>
    /\ loc.iter <= args.maxIterations
    /\ (pc # "start" => loc.centroids = CentroidsAfter(loc.iter))
    /\ \A r \in 1..(loc.iter - 1) : ~StillRound(r)
    /\ (pc = "iterate" /\ loc.iter >= 1 => ~StillRound(loc.iter))
    /\ (pc = "return" => StillRound(loc.iter))
    /\ (pc = "done" =>
          /\ ret = Return(CentroidsAfter(loc.iter))
          /\ \/ loc.iter >= 1 /\ StillRound(loc.iter)
             \/ loc.iter = args.maxIterations)

\* kmeans returned after exactly maxIterations = 2 rounds, the second of
\* which still moved a centroid
C14_Witness ==
  /\ op = "kmeans" /\ pc = "done" /\ ret.kind = "return"
  /\ args.maxIterations = 2 /\ loc.iter = 2
  /\ ~StillRound(2)
=============================================================================
